---- MODULE Spec2Model ----
(***************************************************************************)
(* A model of the image materialization pipeline of image-generation-mcp:  *)
(* the generate_blog_image call handler (src/index.ts), the orchestrator   *)
(* executeGenerateImage (tools/generate-image.ts), the Gemini provider      *)
(* (providers/gemini.ts) and the image utilities (utils/image.ts).         *)
(*                                                                         *)
(* Strings that end up as bytes (metadata values, path names) are          *)
(* sequences of Unicode code points; buffers are sequences of bytes.       *)
(* Human-readable texts (messages, warnings, errors) are sequences of      *)
(* tagged fragments, one per literal piece or interpolated value of the    *)
(* source's template strings.                                              *)
(***************************************************************************)
EXTENDS Integers, Sequences, FiniteSets, TLC

VARIABLES
  env,       \* process environment: GOOGLE_API_KEY set?, IMAGE_OUTPUT_DIR
  upstream,  \* the responses the upstream image service may give
  now,       \* wall clock, milliseconds after 2025-12-02T10:11:00.000Z
  dirs,      \* file system: the directories that exist (absolute paths)
  files,     \* file system: absolute path -> content, for the files that exist
  args,      \* per request: the arguments of the tools/call request
  pc,        \* per request: where the handler is suspended
  ctx,       \* per request: the locals that live across an await
  effects,   \* per request: the side effects performed so far, in order
  outcome,   \* per request: the GenerateImageResult, once there is one
  response   \* per request: what the call handler returned to the caller

vars == <<env, upstream, now, dirs, files, args, pc, ctx, effects, outcome, response>>

(***************************************************************************)
(* Strings as code points.                                                 *)
(***************************************************************************)
CharTable ==
  "For a blog post titled \"" :> <<70, 111, 114, 32, 97, 32, 98, 108, 111, 103, 32, 112, 111, 115, 116, 32, 116, 105, 116, 108, 101, 100, 32, 34>> @@
  "\": " :> <<34, 58, 32>> @@
  "tEXt" :> <<116, 69, 88, 116>> @@
  "Description" :> <<68, 101, 115, 99, 114, 105, 112, 116, 105, 111, 110>> @@
  "AI-Model" :> <<65, 73, 45, 77, 111, 100, 101, 108>> @@
  "AI-Provider" :> <<65, 73, 45, 80, 114, 111, 118, 105, 100, 101, 114>> @@
  "Image-Format" :> <<73, 109, 97, 103, 101, 45, 70, 111, 114, 109, 97, 116>> @@
  "AI-Style" :> <<65, 73, 45, 83, 116, 121, 108, 101>> @@
  "Title" :> <<84, 105, 116, 108, 101>> @@
  "Creation-Time" :> <<67, 114, 101, 97, 116, 105, 111, 110, 45, 84, 105, 109, 101>> @@
  "Software" :> <<83, 111, 102, 116, 119, 97, 114, 101>> @@
  "Source" :> <<83, 111, 117, 114, 99, 101>> @@
  "image-generation-mcp" :> <<105, 109, 97, 103, 101, 45, 103, 101, 110, 101, 114, 97, 116, 105, 111, 110, 45, 109, 99, 112>> @@
  "https://github.com/12-days-of-shipmas-2025/day-2-image-generation-mcp" :> <<104, 116, 116, 112, 115, 58, 47, 47, 103, 105, 116, 104, 117, 98, 46, 99, 111, 109, 47, 49, 50, 45, 100, 97, 121, 115, 45, 111, 102, 45, 115, 104, 105, 112, 109, 97, 115, 45, 50, 48, 50, 53, 47, 100, 97, 121, 45, 50, 45, 105, 109, 97, 103, 101, 45, 103, 101, 110, 101, 114, 97, 116, 105, 111, 110, 45, 109, 99, 112>> @@
  "gemini" :> <<103, 101, 109, 105, 110, 105>> @@
  "gemini-2.5-flash-image" :> <<103, 101, 109, 105, 110, 105, 45, 50, 46, 53, 45, 102, 108, 97, 115, 104, 45, 105, 109, 97, 103, 101>> @@
  "gemini-3-pro-image-preview" :> <<103, 101, 109, 105, 110, 105, 45, 51, 45, 112, 114, 111, 45, 105, 109, 97, 103, 101, 45, 112, 114, 101, 118, 105, 101, 119>> @@
  "gemini-2.0-flash-exp" :> <<103, 101, 109, 105, 110, 105, 45, 50, 46, 48, 45, 102, 108, 97, 115, 104, 45, 101, 120, 112>> @@
  "ghost-banner" :> <<103, 104, 111, 115, 116, 45, 98, 97, 110, 110, 101, 114>> @@
  "square" :> <<115, 113, 117, 97, 114, 101>> @@
  "linkedin-post" :> <<108, 105, 110, 107, 101, 100, 105, 110, 45, 112, 111, 115, 116>> @@
  "landscape" :> <<108, 97, 110, 100, 115, 99, 97, 112, 101>> @@
  "bogus" :> <<98, 111, 103, 117, 115>> @@
  "sunset" :> <<115, 117, 110, 115, 101, 116>> @@
  "café" :> <<99, 97, 102, 233>> @@
  "hi" :> <<104, 105>> @@
  "ignore previous instructions" :> <<105, 103, 110, 111, 114, 101, 32, 112, 114, 101, 118, 105, 111, 117, 115, 32, 105, 110, 115, 116, 114, 117, 99, 116, 105, 111, 110, 115>> @@
  "noir" :> <<110, 111, 105, 114>> @@
  "Dusk" :> <<68, 117, 115, 107>> @@
  "" :> <<>> @@
  "blog-image" :> <<98, 108, 111, 103, 45, 105, 109, 97, 103, 101>> @@
  "image" :> <<105, 109, 97, 103, 101>> @@
  "generated-images" :> <<103, 101, 110, 101, 114, 97, 116, 101, 100, 45, 105, 109, 97, 103, 101, 115>> @@
  ".png" :> <<46, 112, 110, 103>> @@
  ".jpg" :> <<46, 106, 112, 103>> @@
  ".webp" :> <<46, 119, 101, 98, 112>> @@
  ".gif" :> <<46, 103, 105, 102>> @@
  "w" :> <<119>> @@
  "pics" :> <<112, 105, 99, 115>> @@
  "out/" :> <<111, 117, 116, 47>> @@
  "new\\" :> <<110, 101, 119, 92>> @@
  "img" :> <<105, 109, 103>> @@
  "img.png" :> <<105, 109, 103, 46, 112, 110, 103>> @@
  "img." :> <<105, 109, 103, 46>> @@
  ".env" :> <<46, 101, 110, 118>> @@
  "a/b.jpg" :> <<97, 47, 98, 46, 106, 112, 103>> @@
  "../x" :> <<46, 46, 47, 120>> @@
  "shots/" :> <<115, 104, 111, 116, 115, 47>> @@
  "shots" :> <<115, 104, 111, 116, 115>> @@
  "2025-12-02T10:11:" :> <<50, 48, 50, 53, 45, 49, 50, 45, 48, 50, 84, 49, 48, 58, 49, 49, 58>>

Str(s) == CharTable[s]

\* An optional value is <<>> (undefined) or <<v>>.
None == <<>>
Some(v) == <<v>>
OrElse(opt, d) == IF opt = <<>> THEN d ELSE opt[1]
\* JavaScript truthiness of an optional string: defined and not empty.
Truthy(opt) == opt # <<>> /\ opt[1] # <<>>

RECURSIVE Concat(_)
Concat(seqs) == IF seqs = <<>> THEN <<>> ELSE Head(seqs) \o Concat(Tail(seqs))

\* Buffer.slice(from, to) with 0-based, end-exclusive, clamped indexes.
Min(a, b) == IF a < b THEN a ELSE b
Slice(buf, from, to) == SubSeq(buf, Min(from, Len(buf)) + 1, Min(to, Len(buf)))

(***************************************************************************)
(* Buffer.from(text, "latin1") and Buffer.from(text, "utf8").              *)
(***************************************************************************)
Latin1Bytes(text) == [i \in 1..Len(text) |-> text[i] % 256]

Utf8Char(c) ==
  IF c < 128 THEN <<c>>
  ELSE IF c < 2048 THEN <<192 + (c \div 64), 128 + (c % 64)>>
  ELSE <<224 + (c \div 4096), 128 + ((c \div 64) % 64), 128 + (c % 64)>>

RECURSIVE Utf8Bytes(_)
Utf8Bytes(text) ==
  IF text = <<>> THEN <<>> ELSE Utf8Char(Head(text)) \o Utf8Bytes(Tail(text))

(***************************************************************************)
(* zlib crc32. A 32-bit value is kept as two 16-bit halves <<hi, lo>>.     *)
(***************************************************************************)
\* Bitwise exclusive or of two bytes, and of two 16-bit values.
Xor8(a, b) ==
  ((a + b) % 2)
    + 2 * (((a \div 2) + (b \div 2)) % 2)
    + 4 * (((a \div 4) + (b \div 4)) % 2)
    + 8 * (((a \div 8) + (b \div 8)) % 2)
    + 16 * (((a \div 16) + (b \div 16)) % 2)
    + 32 * (((a \div 32) + (b \div 32)) % 2)
    + 64 * (((a \div 64) + (b \div 64)) % 2)
    + 128 * (((a \div 128) + (b \div 128)) % 2)

Xor(a, b) ==
  Xor8(a % 256, b % 256) + 256 * Xor8(a \div 256, b \div 256)

Xor32(x, y) == <<Xor(x[1], y[1]), Xor(x[2], y[2])>>
Shr1(x) == <<x[1] \div 2, (x[2] \div 2) + 32768 * (x[1] % 2)>>
Shr8(x) == <<x[1] \div 256, (x[2] \div 256) + 256 * (x[1] % 256)>>

\* The reflected polynomial 0xEDB88320.
CrcPoly == <<60856, 33568>>

RECURSIVE CrcBits(_, _)
CrcBits(c, k) ==
  IF k = 0 THEN c
  ELSE CrcBits(IF c[2] % 2 = 1 THEN Xor32(CrcPoly, Shr1(c)) ELSE Shr1(c), k - 1)

CrcTable == [n \in 0..255 |-> CrcBits(<<0, n>>, 8)]

CrcByte(c, byte) == Xor32(CrcTable[Xor8(c[2] % 256, byte)], Shr8(c))

\* The running value c after bytes[lo..hi], by halves to keep the evaluation shallow.
RECURSIVE CrcUpdate(_, _, _, _)
CrcUpdate(c, bytes, lo, hi) ==
  IF lo > hi \/ c = <<>> THEN c
  ELSE IF lo = hi THEN CrcByte(c, bytes[lo])
  ELSE LET mid == (lo + hi) \div 2
       IN  CrcUpdate(CrcUpdate(c, bytes, lo, mid), bytes, mid + 1, hi)

crc32(bytes) ==
  Xor32(CrcUpdate(<<65535, 65535>>, bytes, 1, Len(bytes)), <<65535, 65535>>)

\* Buffer.writeUInt32BE of a 32-bit value in halves, and of a small number.
UInt32BEOfHalves(x) == <<x[1] \div 256, x[1] % 256, x[2] \div 256, x[2] % 256>>
WriteUInt32BE(n) ==
  <<(n \div 16777216) % 256, (n \div 65536) % 256, (n \div 256) % 256, n % 256>>

\* Buffer.readUInt32BE(offset): the value, or a RangeError when fewer than
\* four bytes follow the offset.
CanReadUInt32BE(buf, offset) == offset + 4 <= Len(buf)
ReadUInt32BE(buf, offset) ==
  buf[offset + 1] * 16777216 + buf[offset + 2] * 65536
    + buf[offset + 3] * 256 + buf[offset + 4]

(***************************************************************************)
(* String.trim and String.slice(0, n) on code points.                      *)
(***************************************************************************)
IsSpace(c) == c \in {9, 10, 11, 12, 13, 32}

RECURSIVE TrimStart(_)
TrimStart(s) == IF s # <<>> /\ IsSpace(Head(s)) THEN TrimStart(Tail(s)) ELSE s

RECURSIVE TrimEnd(_)
TrimEnd(s) ==
  IF s # <<>> /\ IsSpace(s[Len(s)]) THEN TrimEnd(SubSeq(s, 1, Len(s) - 1)) ELSE s

Trim(s) == TrimEnd(TrimStart(s))

(***************************************************************************)
(* createPngTextChunk: length + "tEXt" + keyword NUL text + crc.           *)
(***************************************************************************)
\* A text chunk without the NUL between keyword and text.
createPngTextChunkNoSeparator(keyword, text) ==
  LET data == Latin1Bytes(Trim(Slice(keyword, 0, 79))) \o Utf8Bytes(text)
  IN  WriteUInt32BE(Len(data)) \o Str("tEXt") \o data
        \o UInt32BEOfHalves(crc32(Str("tEXt") \o data))

createPngTextChunk(keyword, text) ==
  LET safeKeyword == Trim(Slice(keyword, 0, 79))
      data == Latin1Bytes(safeKeyword) \o <<0>> \o Utf8Bytes(text)
      type == Str("tEXt")
  IN  WriteUInt32BE(Len(data)) \o type \o data \o UInt32BEOfHalves(crc32(type \o data))

PngSignature == <<137, 80, 78, 71, 13, 10, 26, 10>>

\* The two chunks embedPngMetadata always adds.
SoftwareChunk == createPngTextChunk(Str("Software"), Str("image-generation-mcp"))
SourceChunk ==
  createPngTextChunk(Str("Source"),
    Str("https://github.com/12-days-of-shipmas-2025/day-2-image-generation-mcp"))

\* The chunks with the title before the style and the fixed chunks first.
MetadataChunksReordered(metadata) ==
  Concat(<<
    SoftwareChunk,
    SourceChunk,
    IF Truthy(metadata.prompt)
      THEN createPngTextChunk(Str("Description"), metadata.prompt[1]) ELSE <<>>,
    IF Truthy(metadata.model)
      THEN createPngTextChunk(Str("AI-Model"), metadata.model[1]) ELSE <<>>,
    IF Truthy(metadata.provider)
      THEN createPngTextChunk(Str("AI-Provider"), metadata.provider[1]) ELSE <<>>,
    IF Truthy(metadata.format)
      THEN createPngTextChunk(Str("Image-Format"), metadata.format[1]) ELSE <<>>,
    IF Truthy(metadata.title)
      THEN createPngTextChunk(Str("Title"), metadata.title[1]) ELSE <<>>,
    IF Truthy(metadata.style)
      THEN createPngTextChunk(Str("AI-Style"), metadata.style[1]) ELSE <<>>,
    IF Truthy(metadata.generatedAt)
      THEN createPngTextChunk(Str("Creation-Time"), metadata.generatedAt[1]) ELSE <<>>
  >>)

\* The chunks embedPngMetadata synthesizes, in the order it pushes them.
MetadataChunks(metadata) ==
  Concat(<<
    IF Truthy(metadata.prompt)
      THEN createPngTextChunk(Str("Description"), metadata.prompt[1]) ELSE <<>>,
    IF Truthy(metadata.model)
      THEN createPngTextChunk(Str("AI-Model"), metadata.model[1]) ELSE <<>>,
    IF Truthy(metadata.provider)
      THEN createPngTextChunk(Str("AI-Provider"), metadata.provider[1]) ELSE <<>>,
    IF Truthy(metadata.format)
      THEN createPngTextChunk(Str("Image-Format"), metadata.format[1]) ELSE <<>>,
    IF Truthy(metadata.style)
      THEN createPngTextChunk(Str("AI-Style"), metadata.style[1]) ELSE <<>>,
    IF Truthy(metadata.title)
      THEN createPngTextChunk(Str("Title"), metadata.title[1]) ELSE <<>>,
    IF Truthy(metadata.generatedAt)
      THEN createPngTextChunk(Str("Creation-Time"), metadata.generatedAt[1]) ELSE <<>>,
    SoftwareChunk,
    SourceChunk
  >>)

\* An embedder that compares only the first four bytes of the signature.
embedPngMetadataShortSignature(pngBuffer, metadata) ==
  IF Slice(pngBuffer, 0, 4) # Slice(PngSignature, 0, 4)
    THEN [threw |-> FALSE, buf |-> pngBuffer]
  ELSE IF ~CanReadUInt32BE(pngBuffer, 8)
    THEN [threw |-> TRUE, buf |-> <<>>]
  ELSE [threw |-> FALSE,
        buf |-> Slice(pngBuffer, 0, 20 + ReadUInt32BE(pngBuffer, 8)) \o MetadataChunks(metadata)
                  \o Slice(pngBuffer, 20 + ReadUInt32BE(pngBuffer, 8), Len(pngBuffer))]

\* embedPngMetadata: [threw, buf]. threw is the RangeError of readUInt32BE.
embedPngMetadata(pngBuffer, metadata) ==
  IF Slice(pngBuffer, 0, 8) # PngSignature
    THEN [threw |-> FALSE, buf |-> pngBuffer]
  ELSE IF ~CanReadUInt32BE(pngBuffer, 8)
    THEN [threw |-> TRUE, buf |-> <<>>]
  ELSE LET ihdrLength == ReadUInt32BE(pngBuffer, 8)
           ihdrEnd == 8 + 4 + 4 + ihdrLength + 4
       IN  [threw |-> FALSE,
            buf |-> Slice(pngBuffer, 0, ihdrEnd) \o MetadataChunks(metadata)
                      \o Slice(pngBuffer, ihdrEnd, Len(pngBuffer))]

(***************************************************************************)
(* Base64. The upstream service hands image bytes over as base64 text      *)
(* (Base64Encode); saveImage turns them back with Buffer.from(_, "base64").*)
(***************************************************************************)
B64Char(v) ==
  IF v < 26 THEN 65 + v
  ELSE IF v < 52 THEN 97 + (v - 26)
  ELSE IF v < 62 THEN 48 + (v - 52)
  ELSE IF v = 62 THEN 43 ELSE 47

IsB64Char(c) ==
  \/ c \in 65..90 \/ c \in 97..122 \/ c \in 48..57 \/ c \in {43, 47}

B64Value(c) ==
  IF c \in 65..90 THEN c - 65
  ELSE IF c \in 97..122 THEN c - 71
  ELSE IF c \in 48..57 THEN c + 4
  ELSE IF c = 43 THEN 62 ELSE 63

RECURSIVE Base64Encode(_)
Base64Encode(bytes) ==
  IF bytes = <<>> THEN <<>>
  ELSE IF Len(bytes) = 1 THEN
    <<B64Char(bytes[1] \div 4), B64Char((bytes[1] % 4) * 16), 61, 61>>
  ELSE IF Len(bytes) = 2 THEN
    <<B64Char(bytes[1] \div 4),
      B64Char(((bytes[1] % 4) * 16) + (bytes[2] \div 16)),
      B64Char((bytes[2] % 16) * 4), 61>>
  ELSE
    <<B64Char(bytes[1] \div 4),
      B64Char(((bytes[1] % 4) * 16) + (bytes[2] \div 16)),
      B64Char(((bytes[2] % 16) * 4) + (bytes[3] \div 64)),
      B64Char(bytes[3] % 64)>> \o Base64Encode(SubSeq(bytes, 4, Len(bytes)))

\* The characters that carry data: everything before the first '=', without
\* the characters outside the alphabet.
RECURSIVE B64Payload(_)
B64Payload(chars) ==
  IF chars = <<>> \/ Head(chars) = 61 THEN <<>>
  ELSE IF IsB64Char(Head(chars)) THEN <<B64Value(Head(chars))>> \o B64Payload(Tail(chars))
  ELSE B64Payload(Tail(chars))

RECURSIVE B64Groups(_)
B64Groups(v) ==
  IF Len(v) < 2 THEN <<>>
  ELSE IF Len(v) = 2 THEN <<(v[1] * 4) + (v[2] \div 16)>>
  ELSE IF Len(v) = 3 THEN
    <<(v[1] * 4) + (v[2] \div 16), ((v[2] % 16) * 16) + (v[3] \div 4)>>
  ELSE
    <<(v[1] * 4) + (v[2] \div 16), ((v[2] % 16) * 16) + (v[3] \div 4), ((v[3] % 4) * 64) + v[4]>>
      \o B64Groups(SubSeq(v, 5, Len(v)))

Base64Decode(chars) == B64Groups(B64Payload(chars))

(***************************************************************************)
(* The clock: new Date().toISOString() and the file-name timestamp.        *)
(***************************************************************************)
Digits2(n) == <<48 + ((n \div 10) % 10), 48 + (n % 10)>>
Digits3(n) == <<48 + ((n \div 100) % 10), 48 + ((n \div 10) % 10), 48 + (n % 10)>>

\* "2025-12-02T10:11:SS.mmmZ" for a clock value t < 60000.
toISOString(t) ==
  Str("2025-12-02T10:11:") \o Digits2(t \div 1000) \o <<46>> \o Digits3(t % 1000) \o <<90>>

\* .replace(/[:.]/g, "-")
ReplaceColonDot(s) == [i \in 1..Len(s) |-> IF s[i] \in {58, 46} THEN 45 ELSE s[i]]

getExtensionFromMimeType(mimeType) ==
  IF mimeType = "image/png" THEN Str(".png")
  ELSE IF mimeType \in {"image/jpeg", "image/jpg"} THEN Str(".jpg")
  ELSE IF mimeType = "image/webp" THEN Str(".webp")
  ELSE IF mimeType = "image/gif" THEN Str(".gif")
  ELSE Str(".png")

\* A file name without the timestamp.
generateFilenameUnstamped(prefix, mimeType, t) ==
  prefix \o getExtensionFromMimeType(mimeType)

generateFilename(prefix, mimeType, t) ==
  LET timestamp == Slice(ReplaceColonDot(toISOString(t)), 0, 19)
  IN  prefix \o <<45>> \o timestamp \o getExtensionFromMimeType(mimeType)

(***************************************************************************)
(* node:path on POSIX. A path string is a sequence of code points; a       *)
(* resolved (absolute, normalized) path is its sequence of segments.       *)
(***************************************************************************)
RECURSIVE SplitPath(_, _)
SplitPath(s, cur) ==
  IF s = <<>> THEN <<cur>>
  ELSE IF Head(s) = 47 THEN <<cur>> \o SplitPath(Tail(s), <<>>)
  ELSE SplitPath(Tail(s), Append(cur, Head(s)))

RECURSIVE NormalizeSegs(_, _)
NormalizeSegs(segs, acc) ==
  IF segs = <<>> THEN acc
  ELSE IF Head(segs) \in {<<>>, <<46>>} THEN NormalizeSegs(Tail(segs), acc)
  ELSE IF Head(segs) = <<46, 46>> THEN
    NormalizeSegs(Tail(segs), IF acc = <<>> THEN acc ELSE SubSeq(acc, 1, Len(acc) - 1))
  ELSE NormalizeSegs(Tail(segs), Append(acc, Head(segs)))

\* process.cwd()
Cwd == <<Str("w")>>

resolve(p) ==
  IF p # <<>> /\ Head(p) = 47 THEN NormalizeSegs(SplitPath(p, <<>>), <<>>)
  ELSE NormalizeSegs(SplitPath(p, <<>>), Cwd)

\* process.cwd() throws when the working directory no longer exists; resolve
\* asks for it only when the path is relative.
ResolveThrows(e, p) == e.cwdGone /\ ~(p # <<>> /\ Head(p) = 47)

join(absSegs, name) == NormalizeSegs(SplitPath(name, <<>>), absSegs)

dirname(absSegs) == IF absSegs = <<>> THEN <<>> ELSE SubSeq(absSegs, 1, Len(absSegs) - 1)

RECURSIVE PathString(_)
PathString(absSegs) ==
  IF absSegs = <<>> THEN <<>> ELSE <<47>> \o Head(absSegs) \o PathString(Tail(absSegs))

\* extname: from the last '.' of the last segment, "" when there is none or
\* when the segment starts with its only dot.
LastDot(seg) ==
  IF \E i \in 1..Len(seg) : seg[i] = 46
    THEN CHOOSE i \in 1..Len(seg) : seg[i] = 46 /\ \A j \in (i + 1)..Len(seg) : seg[j] # 46
    ELSE 0

extname(absSegs) ==
  IF absSegs = <<>> THEN <<>>
  ELSE LET seg == absSegs[Len(absSegs)]
           i == LastDot(seg)
       IN  IF i <= 1 \/ seg = <<46, 46>> THEN <<>> ELSE SubSeq(seg, i, Len(seg))

\* finalPath += ext, on the resolved path.
AppendToPath(absSegs, suffix) ==
  IF absSegs = <<>> THEN <<suffix>>
  ELSE [absSegs EXCEPT ![Len(absSegs)] = @ \o suffix]

(***************************************************************************)
(* estimateFileSize and formatFileSize. A text is a sequence of fragments. *)
(***************************************************************************)
Lit(s) == [kind |-> "lit", val |-> s]
Num(n) == [kind |-> "num", val |-> n]
Path(p) == [kind |-> "path", val |-> p]

estimateFileSize(base64Data) == (Len(base64Data) * 3) \div 4

\* (x / unit).toFixed(1) as <<integer part, tenth>>, rounding half up.
ToFixed1(x, unit) ==
  LET tenths == (x * 20 + unit) \div (2 * unit)
  IN  <<Num(tenths \div 10), Lit("."), Num(tenths % 10)>>

formatFileSize(bytes) ==
  IF bytes < 1024 THEN <<Num(bytes), Lit(" B")>>
  ELSE IF bytes < 1024 * 1024 THEN ToFixed1(bytes, 1024) \o <<Lit(" KB")>>
  ELSE ToFixed1(bytes, 1024 * 1024) \o <<Lit(" MB")>>

Txt(s) == [kind |-> "str", val |-> s]
Secret == [kind |-> "secret", val |-> "GOOGLE_API_KEY value"]

Contains(text, fragment) == \E i \in 1..Len(text) : text[i] = fragment

(***************************************************************************)
(* The preset table and the aspect-ratio mapping of config/presets.ts;     *)
(* dimensions and ratios are those the README lists.                       *)
(***************************************************************************)
PLATFORM_PRESETS ==
  "ghost-banner" :> [width |-> 1200, height |-> 675, aspectRatio |-> "16:9",
                     nativeAspectRatio |-> TRUE, geminiAspectRatio |-> "16:9"] @@
  "square" :> [width |-> 1024, height |-> 1024, aspectRatio |-> "1:1",
               nativeAspectRatio |-> TRUE, geminiAspectRatio |-> "1:1"] @@
  "linkedin-post" :> [width |-> 1200, height |-> 628, aspectRatio |-> "1.91:1",
                      nativeAspectRatio |-> FALSE, geminiAspectRatio |-> "16:9"] @@
  "landscape" :> [width |-> 1920, height |-> 1080, aspectRatio |-> "16:9",
                  nativeAspectRatio |-> TRUE, geminiAspectRatio |-> "16:9"]

PRESET_KEYS == DOMAIN PLATFORM_PRESETS

toGeminiAspectRatio(aspectRatio) ==
  IF aspectRatio \in {"1:1", "16:9", "9:16", "4:3", "3:4"} THEN aspectRatio ELSE "16:9"

(***************************************************************************)
(* utils/security.ts: validatePrompt, validateOutputPath, safeErrorMessage.*)
(***************************************************************************)
BlockedPrompts == {Str("ignore previous instructions")}

validatePrompt(prompt) ==
  IF Trim(prompt) \in BlockedPrompts \/ Trim(prompt) = <<>>
    THEN [valid |-> FALSE, sanitized |-> None,
          error |-> Some(<<Lit("Prompt contains blocked content")>>)]
    ELSE [valid |-> TRUE, sanitized |-> Some(Trim(prompt)), error |-> None]

validateOutputPath(outputPath) ==
  IF \E i \in 1..Len(SplitPath(outputPath, <<>>)) : SplitPath(outputPath, <<>>)[i] = <<46, 46>>
    THEN [valid |-> FALSE, error |-> Some(<<Lit("Path traversal is not allowed")>>)]
    ELSE [valid |-> TRUE, error |-> None]

\* The error's message without anything that resembles a credential.
safeErrorMessage(error) ==
  SelectSeq(error.message, LAMBDA f : f.kind # "secret")

(***************************************************************************)
(* GenerateImageInputSchema.safeParse: required prompt, defaults, enums.   *)
(***************************************************************************)
SchemaIssues(a) ==
  (IF a.prompt = None THEN <<Lit("Required")>>
   ELSE IF Len(a.prompt[1]) < 3 THEN <<Lit("Prompt must be at least 3 characters")>>
   ELSE IF Len(a.prompt[1]) > 4000 THEN <<Lit("Prompt must be less than 4000 characters")>>
   ELSE <<>>)
  \o (IF a.format # None /\ a.format[1] \notin PRESET_KEYS
        THEN <<Lit("Invalid enum value: format")>> ELSE <<>>)
  \o (IF a.quality # None /\ a.quality[1] \notin {"standard", "high"}
        THEN <<Lit("Invalid enum value: quality")>> ELSE <<>>)
  \o (IF a.style # None /\ Len(a.style[1]) > 200
        THEN <<Lit("String must contain at most 200 character(s)")>> ELSE <<>>)
  \o (IF a.title # None /\ Len(a.title[1]) > 200
        THEN <<Lit("String must contain at most 200 character(s)")>> ELSE <<>>)
  \o (IF a.outputPath # None /\ Len(a.outputPath[1]) > 500
        THEN <<Lit("String must contain at most 500 character(s)")>> ELSE <<>>)
  \o (IF a.provider # None /\ a.provider[1] \notin {"gemini"}
        THEN <<Lit("Invalid enum value: provider")>> ELSE <<>>)

\* A parse that applies the defaults and accepts every argument.
safeParseAcceptsAll(a) ==
  [success |-> TRUE,
   issues |-> <<>>,
   data |-> [prompt |-> OrElse(a.prompt, <<>>),
             format |-> OrElse(a.format, "ghost-banner"),
             quality |-> OrElse(a.quality, "standard"),
             style |-> a.style,
             title |-> a.title,
             outputPath |-> a.outputPath,
             provider |-> OrElse(a.provider, "gemini")]]

safeParse(a) ==
  [success |-> SchemaIssues(a) = <<>>,
   issues |-> SchemaIssues(a),
   data |-> [prompt |-> OrElse(a.prompt, <<>>),
             format |-> OrElse(a.format, "ghost-banner"),
             quality |-> OrElse(a.quality, "standard"),
             style |-> a.style,
             title |-> a.title,
             outputPath |-> a.outputPath,
             provider |-> OrElse(a.provider, "gemini")]]

(***************************************************************************)
(* GeminiProvider (providers/gemini.ts) behind the ImageProvider interface *)
(* (providers/types.ts).                                                   *)
(***************************************************************************)
\* A provider that always reports itself configured.
isConfiguredAlways(e) == TRUE

\* The client exists when an API key was in the environment at construction.
isConfigured(e) == e.apiKey

ProviderError(message, code, isRetryable) ==
  [name |-> "ProviderError", message |-> message, provider |-> "gemini",
   code |-> code, isRetryable |-> isRetryable]

\* Math.round(x * num / den)
RoundScaled(x, num, den) == (2 * x * num + den) \div (2 * den)

StandardSizes ==
  "1:1" :> [width |-> 1024, height |-> 1024] @@
  "16:9" :> [width |-> 1536, height |-> 864] @@
  "9:16" :> [width |-> 864, height |-> 1536] @@
  "4:3" :> [width |-> 1280, height |-> 960] @@
  "3:4" :> [width |-> 960, height |-> 1280]

getActualDimensions(aspectRatio, requestedWidth) ==
  IF requestedWidth > 1500
    THEN LET base == StandardSizes[aspectRatio]
         IN  IF requestedWidth > 3000
               THEN [width |-> RoundScaled(base.width, 5, 2),
                     height |-> RoundScaled(base.height, 5, 2)]
               ELSE [width |-> RoundScaled(base.width, 3, 2),
                     height |-> RoundScaled(base.height, 3, 2)]
    ELSE StandardSizes[aspectRatio]

SelectModel(quality) ==
  IF quality = "high" THEN "gemini-3-pro-image-preview" ELSE "gemini-2.5-flash-image"

\* part.inlineData?.mimeType?.startsWith("image/")
IsImagePart(part) ==
  part.kind = "inlineData" /\ part.mimeType \in
    {"image/png", "image/jpeg", "image/jpg", "image/webp", "image/gif", "image/bmp"}

\* The width and height a provider reports: optional in GeneratedImage. The
\* Gemini provider always reports getActualDimensions; another provider
\* behind the same interface may omit either or echo the request.
ReportedDimensions(reports, options) ==
  LET g == getActualDimensions(toGeminiAspectRatio(options.aspectRatio), options.width)
  IN  IF reports = "gemini" THEN [width |-> Some(g.width), height |-> Some(g.height)]
      ELSE IF reports = "asRequested"
        THEN [width |-> Some(options.width), height |-> Some(options.height)]
      ELSE IF reports = "widthOnly" THEN [width |-> Some(g.width), height |-> None]
      ELSE [width |-> None, height |-> None]

\* generateImage once the upstream call settled with resp:
\* [threw, error] or [threw, image].
generateImage(options, resp) ==
  IF resp.kind = "rejects" THEN
    [threw |-> TRUE,
     error |-> ProviderError(<<Lit("Gemini API error: ")>> \o resp.message, "API_ERROR",
                 \E i \in 1..Len(resp.message) :
                   resp.message[i] \in {Lit("rate limit"), Lit("timeout"), Lit("503")})]
  ELSE IF resp.kind = "noParts" THEN
    [threw |-> TRUE,
     error |-> ProviderError(<<Lit("No image generated in response")>>, "NO_IMAGE", TRUE)]
  ELSE IF \A i \in 1..Len(resp.parts) : ~IsImagePart(resp.parts[i]) THEN
    [threw |-> TRUE,
     error |-> ProviderError(<<Lit("No image data found in response")>>, "NO_IMAGE_DATA", TRUE)]
  ELSE
    LET i == CHOOSE k \in 1..Len(resp.parts) :
               IsImagePart(resp.parts[k]) /\ \A j \in 1..(k - 1) : ~IsImagePart(resp.parts[j])
        part == resp.parts[i]
        dims == ReportedDimensions(resp.reports, options)
    IN  IF part.data = <<>> THEN
          [threw |-> TRUE,
           error |-> ProviderError(<<Lit("Empty image data in response")>>,
                                   "EMPTY_IMAGE_DATA", TRUE)]
        ELSE
          [threw |-> FALSE,
           image |-> [base64Data |-> part.data, mimeType |-> part.mimeType,
                      width |-> dims.width, height |-> dims.height,
                      model |-> Some(SelectModel(options.quality))]]

\* The synchronous head of GeminiProvider.generateImage: without a client it
\* throws before any network call.
HasClient(e) == e.apiKey
NotConfiguredError ==
  ProviderError(<<Lit("Gemini provider not configured. Set GOOGLE_API_KEY environment variable.")>>,
                "NOT_CONFIGURED", FALSE)

(***************************************************************************)
(* The file system.                                                        *)
(***************************************************************************)
existsSync(ds, fs, path) == path \in ds \/ path \in DOMAIN fs
IsDirectorySync(ds, path) == path \in ds

Prefixes(path) == {SubSeq(path, 1, n) : n \in 0..Len(path)}

FsError(code, syscall, path) ==
  [name |-> "Error", code |-> code,
   message |-> <<Lit(code), Lit(syscall), Path(path)>>]

\* The error of process.cwd() in a directory that was removed.
CwdError ==
  [name |-> "Error", code |-> "ENOENT",
   message |-> <<Lit("ENOENT: no such file or directory, uv_cwd")>>]

\* mkdir(dir, {recursive: true}) cannot succeed below a regular file.
MkdirMustFail(fs, dir) == \E q \in Prefixes(dir) : q \in DOMAIN fs
\* writeFile cannot succeed onto a directory or below a missing directory.
WriteMustFail(ds, fs, path) == path \in ds \/ dirname(path) \notin ds

WriteFileInto(fs, path, data, writer) ==
  [q \in DOMAIN fs \cup {path} |->
     IF q = path THEN [data |-> data, writer |-> writer] ELSE fs[q]]

(***************************************************************************)
(* utils/image.ts: output path resolution and saveImage.                   *)
(***************************************************************************)
getDefaultOutputDir(e) ==
  IF Truthy(e.outputDir) THEN resolve(e.outputDir[1])
  ELSE join(Cwd, Str("generated-images"))

DefaultOutputPathThrows(e) ==
  IF Truthy(e.outputDir) THEN ResolveThrows(e, e.outputDir[1]) ELSE e.cwdGone

generateDefaultOutputPath(e, mimeType, t) ==
  PathString(join(getDefaultOutputDir(e), generateFilename(Str("blog-image"), mimeType, t)))

EndsWithSeparator(outputPath) ==
  outputPath # <<>> /\ outputPath[Len(outputPath)] \in {47, 92}

\* saveImage taking only an existing directory for a directory.
SaveResolveExistingOnly(outputPath, mimeType, t, ds, fs) ==
  LET resolved == resolve(outputPath)
      isDirectory == existsSync(ds, fs, resolved) /\ IsDirectorySync(ds, resolved)
      absolutePath ==
        IF isDirectory
          THEN join(resolved, generateFilename(Str("blog-image"), mimeType, t))
          ELSE resolved
  IN  [absolutePath |-> absolutePath,
       isDirectory |-> isDirectory,
       dir |-> dirname(absolutePath),
       needMkdir |-> ~existsSync(ds, fs, dirname(absolutePath))]

\* saveImage up to the directory check (lines 157-174).
SaveResolve(outputPath, mimeType, t, ds, fs) ==
  LET resolved == resolve(outputPath)
      isDirectory ==
        \/ EndsWithSeparator(outputPath)
        \/ (existsSync(ds, fs, resolved) /\ IsDirectorySync(ds, resolved))
      absolutePath ==
        IF isDirectory
          THEN join(resolved, generateFilename(Str("blog-image"), mimeType, t))
          ELSE resolved
  IN  [absolutePath |-> absolutePath,
       isDirectory |-> isDirectory,
       dir |-> dirname(absolutePath),
       needMkdir |-> ~existsSync(ds, fs, dirname(absolutePath))]

\* saveImage embedding whatever the MIME type is.
SaveFinishAlwaysEmbeds(absolutePath, base64Data, mimeType, metadata) ==
  LET finalPath ==
        IF extname(absolutePath) = <<>>
          THEN AppendToPath(absolutePath, getExtensionFromMimeType(mimeType))
          ELSE absolutePath
      embedded == embedPngMetadata(Base64Decode(base64Data), metadata[1])
  IN  [threw |-> embedded.threw,
       error |-> [name |-> "RangeError", code |-> "ERR_OUT_OF_RANGE",
                  message |-> <<Lit("The value of \"offset\" is out of range.")>>],
       finalPath |-> finalPath,
       finalBuffer |-> embedded.buf,
       effects |-> IF embedded.threw
                     THEN <<[op |-> "embedPngMetadata.throw", path |-> <<>>]>>
                     ELSE <<[op |-> "embedPngMetadata", path |-> <<>>],
                            [op |-> "writeFile.call", path |-> finalPath]>>]

\* saveImage writing the decoded bytes first and embedding afterwards.
SaveFinishMetadataAfterWrite(absolutePath, base64Data, mimeType, metadata) ==
  LET finalPath ==
        IF extname(absolutePath) = <<>>
          THEN AppendToPath(absolutePath, getExtensionFromMimeType(mimeType))
          ELSE absolutePath
      rawBuffer == Base64Decode(base64Data)
      embeds == metadata # None /\ mimeType = "image/png"
      embedded == IF embeds THEN embedPngMetadata(rawBuffer, metadata[1])
                  ELSE [threw |-> FALSE, buf |-> rawBuffer]
  IN  [threw |-> embedded.threw,
       error |-> [name |-> "RangeError", code |-> "ERR_OUT_OF_RANGE",
                  message |-> <<Lit("The value of \"offset\" is out of range.")>>],
       finalPath |-> finalPath,
       finalBuffer |-> rawBuffer,
       effects |-> IF embeds
                     THEN <<[op |-> "writeFile.call", path |-> finalPath],
                            [op |-> "embedPngMetadata", path |-> <<>>]>>
                     ELSE <<[op |-> "writeFile.call", path |-> finalPath]>>]

\* saveImage from the extension check to the writeFile call (lines 178-191).
SaveFinish(absolutePath, base64Data, mimeType, metadata) ==
  LET finalPath ==
        IF extname(absolutePath) = <<>>
          THEN AppendToPath(absolutePath, getExtensionFromMimeType(mimeType))
          ELSE absolutePath
      rawBuffer == Base64Decode(base64Data)
      embeds == metadata # None /\ mimeType = "image/png"
      embedded == IF embeds THEN embedPngMetadata(rawBuffer, metadata[1])
                  ELSE [threw |-> FALSE, buf |-> rawBuffer]
  IN  [threw |-> embedded.threw,
       error |-> [name |-> "RangeError", code |-> "ERR_OUT_OF_RANGE",
                  message |-> <<Lit("The value of \"offset\" is out of range.")>>],
       finalPath |-> finalPath,
       finalBuffer |-> embedded.buf,
       effects |-> IF embeds
                     THEN IF embedded.threw
                            THEN <<[op |-> "embedPngMetadata.throw", path |-> <<>>]>>
                            ELSE <<[op |-> "embedPngMetadata", path |-> <<>>],
                                   [op |-> "writeFile.call", path |-> finalPath]>>
                     ELSE <<[op |-> "writeFile.call", path |-> finalPath]>>]

(***************************************************************************)
(* tools/generate-image.ts: the outcomes executeGenerateImage returns.     *)
(***************************************************************************)
Failure(message, error) ==
  [success |-> FALSE, message |-> <<Lit(message)>>, image |-> None,
   warning |-> None, error |-> error]

NotConfiguredOutcome(input) ==
  Failure("Provider not configured",
          Some(<<Txt(input.provider),
                 Lit(" provider requires API key. Set GOOGLE_API_KEY environment variable.")>>))

\* A generation failure that carries no error.
GenerationFailedSilently(error) ==
  Failure("Image generation failed", None)

GenerationFailedOutcome(error) ==
  Failure("Image generation failed", Some(safeErrorMessage(error)))

SaveFailedOutcome(error) ==
  Failure("Failed to save image", Some(safeErrorMessage(error)))

\* The width the preset asked for, whatever the provider returned.
RequestedWidthOnly(image, preset) == preset.width

\* generatedImage.width ?? preset.width, generatedImage.height ?? preset.height
ActualWidth(image, preset) == OrElse(image.width, preset.width)
ActualHeight(image, preset) == OrElse(image.height, preset.height)

NativeMismatchWarning(preset) ==
  <<Lit("Note: This preset's aspect ratio ("), Txt(preset.aspectRatio),
    Lit(") is not natively supported by Gemini. Image was generated at "),
    Txt(preset.geminiAspectRatio),
    Lit(" aspect ratio. You may need to crop the image to fit "),
    Num(preset.width), Lit("x"), Num(preset.height), Lit(".")>>

\* A drift warning that names the actual size only.
DriftWarningActualOnly(preset, actualWidth, actualHeight) ==
  <<Lit("Image was generated at "), Num(actualWidth), Lit("x"), Num(actualHeight),
    Lit(". You may need to resize the image.")>>

DimensionDriftWarning(preset, actualWidth, actualHeight) ==
  <<Lit("Image was generated at "), Num(actualWidth), Lit("x"), Num(actualHeight),
    Lit(", which differs from the preset's "),
    Num(preset.width), Lit("x"), Num(preset.height),
    Lit(". You may need to resize the image.")>>

\* A warning for non-native aspect ratios only.
BuildWarningNativeMismatchOnly(preset, actualWidth, actualHeight) ==
  IF ~preset.nativeAspectRatio THEN Some(NativeMismatchWarning(preset)) ELSE None

BuildWarning(preset, actualWidth, actualHeight) ==
  IF ~preset.nativeAspectRatio THEN Some(NativeMismatchWarning(preset))
  ELSE IF actualWidth # preset.width \/ actualHeight # preset.height
    THEN Some(DimensionDriftWarning(preset, actualWidth, actualHeight))
  ELSE None

SavedOutcome(input, preset, image, fileSize, savedPath) ==
  [success |-> TRUE,
   message |-> <<Lit("Image generated and saved to "), Path(savedPath)>>,
   image |-> Some([base64Data |-> image.base64Data,
                   mimeType |-> image.mimeType,
                   format |-> input.format,
                   dimensions |-> [width |-> ActualWidth(image, preset),
                                   height |-> ActualHeight(image, preset),
                                   requestedWidth |-> preset.width,
                                   requestedHeight |-> preset.height],
                   fileSize |-> fileSize,
                   savedTo |-> Some(savedPath)]),
   warning |-> BuildWarning(preset, ActualWidth(image, preset), ActualHeight(image, preset)),
   error |-> None]

\* executeGenerateImage up to the provider call (lines 85-144): either an
\* outcome, or the options the provider is called with.
ExecuteStart(input, e) ==
  LET promptValidation == validatePrompt(input.prompt)
      pathValidation ==
        IF Truthy(input.outputPath) THEN validateOutputPath(input.outputPath[1])
        ELSE [valid |-> TRUE, error |-> None]
      known == input.format \in PRESET_KEYS
      preset == IF known THEN PLATFORM_PRESETS[input.format]
                ELSE PLATFORM_PRESETS["ghost-banner"]
      enhancedPrompt ==
        IF Truthy(input.title)
          THEN Str("For a blog post titled \"") \o input.title[1] \o Str("\": ")
                 \o OrElse(promptValidation.sanitized, <<>>)
          ELSE OrElse(promptValidation.sanitized, <<>>)
      options == [prompt |-> enhancedPrompt, aspectRatio |-> preset.aspectRatio,
                  width |-> preset.width, height |-> preset.height,
                  quality |-> input.quality, style |-> input.style]
      called == <<[op |-> "generateImage.call", path |-> <<>>]>>
      stop(o, eff) == [done |-> TRUE, outcome |-> o, effects |-> eff,
                       preset |-> preset, options |-> options]
  IN  IF ~promptValidation.valid
        THEN stop(Failure("Invalid prompt", promptValidation.error), <<>>)
      ELSE IF ~pathValidation.valid
        THEN stop(Failure("Invalid output path", pathValidation.error), <<>>)
      ELSE IF ~known
        THEN stop(Failure("Invalid format",
                          Some(<<Lit("Unknown format: "), Txt(input.format)>>)), <<>>)
      ELSE IF ~isConfigured(e)
        THEN stop(NotConfiguredOutcome(input), <<>>)
      ELSE IF ~HasClient(e)
        THEN stop(GenerationFailedOutcome(NotConfiguredError),
                  called \o <<[op |-> "generateImage.throw", path |-> <<>>]>>)
      ELSE [done |-> FALSE, outcome |-> Failure("", None), effects |-> called,
            preset |-> preset, options |-> options]

(***************************************************************************)
(* src/index.ts: what the tools/call handler returns.                      *)
(***************************************************************************)
TextItem(text) == [type |-> "text", text |-> text, data |-> <<>>, mimeType |-> ""]
ImageItem(data, mimeType) == [type |-> "image", text |-> <<>>, data |-> data, mimeType |-> mimeType]

SchemaErrorResponse(issues) ==
  [isError |-> TRUE, content |-> <<TextItem(<<Lit("Invalid input: ")>> \o issues)>>]

Details(image) ==
  <<Lit("\nDetails:\n- Format: "), Txt(image.format), Lit("\n- Dimensions: "),
    Num(image.dimensions.width), Lit("x"), Num(image.dimensions.height),
    Lit("\n- File size: ")>> \o image.fileSize
    \o (IF image.savedTo # None
          THEN <<Lit("\n- Saved to: "), Path(image.savedTo[1])>> ELSE <<>>)

HandlerResponse(result) ==
  IF ~result.success
    THEN [isError |-> TRUE,
          content |-> <<TextItem(<<Lit("Error: ")>> \o OrElse(result.error, result.message))>>]
    ELSE [isError |-> FALSE,
          content |-> <<TextItem(result.message)>>
            \o (IF result.image # None
                  THEN <<ImageItem(result.image[1].base64Data, result.image[1].mimeType),
                         TextItem(Details(result.image[1]))>>
                  ELSE <<>>)]

\* The handler's catch: what the caller gets when executeGenerateImage throws.
CaughtByHandler(error) ==
  [isError |-> TRUE,
   content |-> <<TextItem(<<Lit("Error: ")>> \o safeErrorMessage(error))>>]

(***************************************************************************)
(* Bounds and the inputs drawn within them.                                *)
(***************************************************************************)
MaxTicks == 2        \* clock ticks of half a second
MaxTail == 4         \* bytes following the signature in a headerless buffer
MaxIhdrData == 1     \* declared data length of a complete first chunk

BaseArgs ==
  [prompt |-> Some(Str("sunset")), format |-> None, quality |-> None, style |-> None,
   title |-> None, outputPath |-> None, provider |-> None]

PathSamples ==
  {Str(""), Str("pics"), Str("out/"), Str("img"), Str("img.png"), Str("a/b.jpg"),
   Str("../x"), Str("shots/"), Str("img."), Str(".env"),
   Str("new\\")}

ArgsSamples ==
  {[BaseArgs EXCEPT !.format = Some(f)] : f \in PRESET_KEYS \cup {"bogus"}}
  \cup {[BaseArgs EXCEPT !.outputPath = Some(q)] : q \in PathSamples}
  \cup {[BaseArgs EXCEPT !.prompt = x] :
          x \in {None, Some(Str("hi")), Some(Str("café")),
                 Some(Str("ignore previous instructions"))}}
  \cup {[BaseArgs EXCEPT !.style = Some(Str("noir")), !.title = Some(Str("Dusk")),
                         !.quality = Some("high")],
        [BaseArgs EXCEPT !.style = Some(Str(""))],
        [BaseArgs EXCEPT !.provider = Some("bogus")]}

Zeros(k) == [i \in 1..k |-> 0]

\* A signature, a complete first chunk with d bytes of data, and what follows.
HeaderedBuffer(d) ==
  PngSignature \o WriteUInt32BE(d) \o <<73, 72, 68, 82>> \o [i \in 1..d |-> 8]
    \o <<1, 2, 3, 4>> \o <<0, 0, 0, 0, 73, 69, 78, 68, 174, 66, 96, 130>>

BaseBuffer == HeaderedBuffer(0)

Buffers ==
  {Slice(PngSignature, 0, 4), <<255, 216, 255>>}
  \cup {PngSignature \o Zeros(k) : k \in 0..MaxTail}
  \cup {HeaderedBuffer(d) : d \in 0..MaxIhdrData}

TextPart == [kind |-> "text", mimeType |-> "", data |-> <<>>]
InlinePart(mimeType, data) == [kind |-> "inlineData", mimeType |-> mimeType, data |-> data]

ImageResponse(buf, mimeType, reports) ==
  [kind |-> "parts", message |-> <<>>, reports |-> reports,
   parts |-> <<TextPart, InlinePart(mimeType, Base64Encode(buf))>>]

FailureResponses ==
  {[kind |-> "rejects", message |-> <<Lit("rate limit")>>, reports |-> "gemini", parts |-> <<>>],
   [kind |-> "rejects", message |-> <<Lit("API key not valid: "), Secret>>,
    reports |-> "gemini", parts |-> <<>>],
   [kind |-> "noParts", message |-> <<>>, reports |-> "gemini", parts |-> <<>>],
   [kind |-> "parts", message |-> <<>>, reports |-> "gemini", parts |-> <<TextPart>>],
   [kind |-> "parts", message |-> <<>>, reports |-> "gemini",
    parts |-> <<InlinePart("text/plain", Base64Encode(BaseBuffer))>>],
   [kind |-> "parts", message |-> <<>>, reports |-> "gemini",
    parts |-> <<InlinePart("image/png", <<>>)>>]}

FullUpstream ==
  FailureResponses
  \cup {ImageResponse(b, m, "gemini") : b \in Buffers, m \in {"image/png", "image/jpeg", "image/bmp"}}
  \cup {ImageResponse(BaseBuffer, "image/png", rep) : rep \in {"asRequested", "widthOnly", "none"}}
  \cup {ImageResponse(<<255, 216, 255>>, m, "gemini") : m \in {"image/webp", "image/gif"}}

Envs ==
  {[apiKey |-> TRUE, outputDir |-> None, cwdGone |-> FALSE],
   [apiKey |-> FALSE, outputDir |-> None, cwdGone |-> FALSE],
   [apiKey |-> TRUE, outputDir |-> Some(Str("pics")), cwdGone |-> FALSE],
   [apiKey |-> TRUE, outputDir |-> None, cwdGone |-> TRUE]}

InitialDirs == {<<>>, Cwd, Cwd \o <<Str("pics")>>}
InitialFiles == (Cwd \o <<Str("shots")>>) :> [data |-> <<>>, writer |-> 0]

Requests == DOMAIN args

InitWith(envs, responses, requestIds, samples) ==
  /\ env \in envs
  /\ upstream = responses
  /\ now = 0
  /\ dirs = InitialDirs
  /\ files = InitialFiles
  /\ args \in [requestIds -> samples]
  /\ pc = [r \in requestIds |-> "received"]
  /\ ctx = [r \in requestIds |-> [input |-> None]]
  /\ effects = [r \in requestIds |-> <<>>]
  /\ outcome = [r \in requestIds |-> None]
  /\ response = [r \in requestIds |-> None]

Init == InitWith(Envs, FullUpstream, {1}, ArgsSamples)

(***************************************************************************)
(* The steps of one tools/call request. Each action is the code that runs  *)
(* between two awaits.                                                     *)
(***************************************************************************)
Finish(r, result, eff) ==
  /\ outcome' = [outcome EXCEPT ![r] = Some(result)]
  /\ response' = [response EXCEPT ![r] = Some(HandlerResponse(result))]
  /\ effects' = [effects EXCEPT ![r] = @ \o eff]
  /\ pc' = [pc EXCEPT ![r] = "done"]

\* executeGenerateImage throws: the handler's catch answers, and there is no
\* outcome.
Escape(r, error, eff) ==
  /\ response' = [response EXCEPT ![r] = Some(CaughtByHandler(error))]
  /\ effects' = [effects EXCEPT ![r] =
                   @ \o eff \o <<[op |-> "executeGenerateImage.throw", path |-> <<>>]>>]
  /\ pc' = [pc EXCEPT ![r] = "done"]
  /\ UNCHANGED outcome

\* saveImage once the directory exists, through to the writeFile call; on a
\* throw, executeGenerateImage's catch.
ContinueSave(r, c, eff) ==
  LET fin == SaveFinish(c.absolutePath, c.image.base64Data, c.image.mimeType, Some(c.metadata))
  IN  IF fin.threw
        THEN /\ Finish(r, SaveFailedOutcome(fin.error), eff \o fin.effects)
             /\ ctx' = [ctx EXCEPT ![r] = c]
        ELSE /\ pc' = [pc EXCEPT ![r] = "awaitWrite"]
             /\ ctx' = [ctx EXCEPT ![r] =
                          [finalPath |-> fin.finalPath, finalBuffer |-> fin.finalBuffer] @@ c]
             /\ effects' = [effects EXCEPT ![r] = @ \o eff \o fin.effects]
             /\ UNCHANGED <<outcome, response>>

\* The handler from the request's arrival to the provider's network call.
CallTool(r) ==
  /\ pc[r] = "received"
  /\ LET parse == safeParse(args[r])
         start == ExecuteStart(parse.data, env)
     IN  IF ~parse.success
           THEN /\ response' = [response EXCEPT ![r] = Some(SchemaErrorResponse(parse.issues))]
                /\ pc' = [pc EXCEPT ![r] = "done"]
                /\ UNCHANGED <<ctx, effects, outcome>>
         ELSE IF start.done
           THEN /\ Finish(r, start.outcome, start.effects)
                /\ ctx' = [ctx EXCEPT ![r] = [input |-> Some(parse.data)]]
         ELSE /\ pc' = [pc EXCEPT ![r] = "awaitProvider"]
              /\ ctx' = [ctx EXCEPT ![r] = [input |-> Some(parse.data),
                                            preset |-> start.preset,
                                            options |-> start.options]]
              /\ effects' = [effects EXCEPT ![r] = @ \o start.effects]
              /\ UNCHANGED <<outcome, response>>
  /\ UNCHANGED <<env, upstream, now, dirs, files, args>>

\* The upstream call settles; on an image the orchestrator runs on into
\* saveImage, up to its first await (mkdir or writeFile).
ProviderSettles(r) ==
  /\ pc[r] = "awaitProvider"
  /\ \E resp \in upstream :
       LET got == generateImage(ctx[r].options, resp)
           input == ctx[r].input[1]
       IN  IF got.threw
             THEN /\ Finish(r, GenerationFailedOutcome(got.error),
                            <<[op |-> "generateImage.throw", path |-> <<>>]>>)
                  /\ ctx' = [ctx EXCEPT ![r] = [thrown |-> got.error] @@ @]
           ELSE
             LET image == got.image
                 fileSize == formatFileSize(estimateFileSize(image.base64Data))
                 outputPath ==
                   IF input.outputPath # None THEN input.outputPath[1]
                   ELSE generateDefaultOutputPath(env, image.mimeType, now)
                 metadata ==
                   [prompt |-> Some(input.prompt),
                    model |-> Some(Str(OrElse(image.model, "gemini-2.0-flash-exp"))),
                    provider |-> Some(Str(input.provider)),
                    format |-> Some(Str(input.format)),
                    style |-> input.style,
                    title |-> input.title,
                    generatedAt |-> Some(toISOString(now))]
                 res == SaveResolve(outputPath, image.mimeType, now, dirs, files)
                 c == [image |-> image, fileSize |-> fileSize, metadata |-> metadata,
                       absolutePath |-> res.absolutePath, dir |-> res.dir,
                       isDirectory |-> res.isDirectory, resolvedAt |-> now] @@ ctx[r]
                 returned == <<[op |-> "generateImage.return", path |-> <<>>]>>
                 early == [image |-> image, fileSize |-> fileSize] @@ ctx[r]
             IN  IF input.outputPath = None /\ DefaultOutputPathThrows(env)
                   THEN /\ Escape(r, CwdError, returned)
                        /\ ctx' = [ctx EXCEPT ![r] = early]
                 ELSE IF ResolveThrows(env, outputPath)
                   THEN /\ Finish(r, SaveFailedOutcome(CwdError), returned)
                        /\ ctx' = [ctx EXCEPT ![r] = early]
                 ELSE IF res.needMkdir
                   THEN /\ pc' = [pc EXCEPT ![r] = "awaitMkdir"]
                        /\ ctx' = [ctx EXCEPT ![r] = c]
                        /\ effects' = [effects EXCEPT ![r] =
                                         @ \o returned \o <<[op |-> "mkdir.call", path |-> res.dir]>>]
                        /\ UNCHANGED <<outcome, response>>
                   ELSE ContinueSave(r, c, returned)
  /\ UNCHANGED <<env, upstream, now, dirs, files, args>>

\* mkdir(dir, {recursive: true}) settles.
MkdirSettles(r) ==
  /\ pc[r] = "awaitMkdir"
  /\ \E fails \in BOOLEAN :
       IF fails \/ MkdirMustFail(files, ctx[r].dir)
         THEN /\ Finish(r, SaveFailedOutcome(FsError("EACCES", "mkdir", ctx[r].dir)), <<>>)
              /\ UNCHANGED <<ctx, dirs>>
         ELSE /\ dirs' = dirs \cup Prefixes(ctx[r].dir)
              /\ ContinueSave(r, ctx[r], <<[op |-> "mkdir", path |-> ctx[r].dir]>>)
  /\ UNCHANGED <<env, upstream, now, files, args>>

\* writeFile(finalPath, finalBuffer) settles; on success the orchestrator
\* reconciles the geometry and returns the success outcome.
WriteSettles(r) ==
  /\ pc[r] = "awaitWrite"
  /\ \E fails \in BOOLEAN :
       LET c == ctx[r]
       IN  IF fails \/ WriteMustFail(dirs, files, c.finalPath)
             THEN /\ Finish(r, SaveFailedOutcome(FsError("EACCES", "open", c.finalPath)), <<>>)
                  /\ UNCHANGED files
             ELSE /\ files' = WriteFileInto(files, c.finalPath, c.finalBuffer, r)
                  /\ Finish(r, SavedOutcome(c.input[1], c.preset, c.image, c.fileSize, c.finalPath),
                            <<[op |-> "writeFile", path |-> c.finalPath,
                               replaced |-> IF c.finalPath \in DOMAIN files
                                              THEN files[c.finalPath].writer ELSE 0]>>)
  /\ UNCHANGED <<env, upstream, now, dirs, args, ctx>>

\* Half a second passes while a request is still running.
Tick ==
  /\ now < MaxTicks * 500
  /\ \E r \in Requests : pc[r] # "done"
  /\ now' = now + 500
  /\ UNCHANGED <<env, upstream, dirs, files, args, pc, ctx, effects, outcome, response>>

Next ==
  \/ \E r \in Requests : CallTool(r)
  \/ \E r \in Requests : ProviderSettles(r)
  \/ \E r \in Requests : MkdirSettles(r)
  \/ \E r \in Requests : WriteSettles(r)
  \/ Tick

Spec == Init /\ [][Next]_vars

(***************************************************************************)
(* Requests running together: two requests that leave the file name to the *)
(* output resolver, against an upstream that always returns an image.      *)
(***************************************************************************)
ConcArgs ==
  {BaseArgs,
   [BaseArgs EXCEPT !.outputPath = Some(Str("pics"))],
   [BaseArgs EXCEPT !.outputPath = Some(Str("out/"))]}

ConcUpstream ==
  {ImageResponse(Slice(PngSignature, 0, 4), "image/png", "gemini"),
   ImageResponse(<<255, 216, 255>>, "image/jpeg", "gemini")}

ConcEnvs ==
  {[apiKey |-> TRUE, outputDir |-> None, cwdGone |-> FALSE],
   [apiKey |-> TRUE, outputDir |-> Some(Str("pics")), cwdGone |-> FALSE]}

\* The properties of concurrent requests are about pairs of requests.
InitConc == InitWith(ConcEnvs, ConcUpstream, {1, 2}, ConcArgs)

SpecConc == InitConc /\ [][Next]_vars

(***************************************************************************)
(* The metadata codec on its own: embedPngMetadata applied to a buffer and *)
(* a metadata record, for buffers with and without the PNG signature and   *)
(* for every combination of present fields.                                *)
(***************************************************************************)
NonPngBuffers ==
  {Slice(PngSignature, 0, k) : k \in 0..7}
  \cup {[PngSignature EXCEPT ![i] = 0] \o Zeros(k) : i \in {1, 5, 8}, k \in {0, MaxTail}}
  \cup {<<255, 216, 255>>, <<0>> \o BaseBuffer}

CodecBuffers == NonPngBuffers \cup Buffers

FieldNames == {"prompt", "model", "provider", "format", "style", "title", "generatedAt"}

FieldValue(f) ==
  CASE f = "prompt" -> Str("café")
    [] f = "model" -> Str("gemini-2.5-flash-image")
    [] f = "provider" -> Str("gemini")
    [] f = "format" -> Str("square")
    [] f = "style" -> Str("noir")
    [] f = "title" -> Str("Dusk")
    [] f = "generatedAt" -> toISOString(0)

MetadataOf(present) ==
  [f \in FieldNames |-> IF f \in present THEN Some(FieldValue(f)) ELSE None]

CodecMetadata ==
  {MetadataOf(present) : present \in SUBSET FieldNames}
  \cup {[MetadataOf(FieldNames) EXCEPT ![f] = Some(Str(""))] : f \in FieldNames}

InitCodec ==
  /\ env = [apiKey |-> FALSE, outputDir |-> None, cwdGone |-> FALSE]
  /\ upstream = {}
  /\ now = 0
  /\ dirs = InitialDirs
  /\ files = InitialFiles
  /\ args \in [{1} -> {[pngBuffer |-> b, metadata |-> m] : b \in CodecBuffers, m \in CodecMetadata}]
  /\ pc = [r \in {1} |-> "input"]
  /\ ctx = [r \in {1} |-> [input |-> None]]
  /\ effects = [r \in {1} |-> <<>>]
  /\ outcome = [r \in {1} |-> None]
  /\ response = [r \in {1} |-> None]

Embed(r) ==
  /\ pc[r] = "input"
  /\ ctx' = [ctx EXCEPT ![r] =
               [result |-> embedPngMetadata(args[r].pngBuffer, args[r].metadata)]]
  /\ pc' = [pc EXCEPT ![r] = "embedded"]
  /\ UNCHANGED <<env, upstream, now, dirs, files, args, effects, outcome, response>>

NextCodec == \E r \in Requests : Embed(r)

SpecCodec == InitCodec /\ [][NextCodec]_vars

(***************************************************************************)
(* Vocabulary of the properties.                                           *)
(***************************************************************************)
Done(r) == pc[r] = "done"
HasOutcome(r) == outcome[r] # None
Out(r) == outcome[r][1]
Saved(r) == HasOutcome(r) /\ Out(r).success
Failed(r) == HasOutcome(r) /\ ~Out(r).success

Did(r, op) == \E i \in 1..Len(effects[r]) : effects[r][i].op = op
FsOps == {"mkdir.call", "mkdir", "writeFile.call", "writeFile"}
TouchedFs(r) == \E op \in FsOps : Did(r, op)

\* The provider returned an image and saveImage then threw.
SaveThrew(r) == Failed(r) /\ Did(r, "generateImage.return")

\* The literal pieces of the program's texts that say an image was generated.
GenerationPhrases == {Lit("Image generated and saved to "), Lit("Image was generated at ")}
StatesGenerated(text) == \E i \in 1..Len(text) : text[i] \in GenerationPhrases

(***************************************************************************)
(* C1. When saveImage throws after the provider returned an image, the     *)
(* failure outcome's text says that the image was generated but could not  *)
(* be saved.                                                               *)
(***************************************************************************)
C1_WriteFailureSaysGenerated ==
  \A r \in Requests :
    (SaveThrew(r) /\ ~Did(r, "embedPngMetadata.throw")) =>
      StatesGenerated(Out(r).message \o OrElse(Out(r).error, <<>>))

(***************************************************************************)
(* C2. Without a configured provider the request ends in the "Provider not *)
(* configured" failure; generateImage is never called, no directory is     *)
(* created and no file is written.                                         *)
(***************************************************************************)
InvalidInputMessages ==
  {<<Lit("Invalid prompt")>>, <<Lit("Invalid output path")>>, <<Lit("Invalid format")>>}

C2_NotConfiguredNoSideEffects ==
  ~env.apiKey =>
    /\ dirs = InitialDirs /\ files = InitialFiles
    /\ \A r \in Requests :
         /\ effects[r] = <<>>
         /\ HasOutcome(r) =>
              /\ ~Out(r).success
              /\ Out(r).error # None
              /\ Out(r).message \notin InvalidInputMessages
                   => Out(r).message = <<Lit("Provider not configured")>>

C2_Witness ==
  /\ ~env.apiKey
  /\ Done(1) /\ HasOutcome(1)
  /\ Out(1).message = <<Lit("Provider not configured")>>

(***************************************************************************)
(* C3. When provider.generateImage throws, the request ends in a failure   *)
(* outcome that carries an error, and saveImage is never reached: no       *)
(* directory is created and no file is written.                            *)
(***************************************************************************)
C3_ProviderFailureIsTerminal ==
  \A r \in Requests :
    Did(r, "generateImage.throw") =>
      /\ Done(r) /\ Failed(r)
      /\ Out(r).error # None /\ Out(r).error # Some(<<>>)
      /\ ~TouchedFs(r)
      /\ Requests = {r} => (dirs = InitialDirs /\ files = InitialFiles)

C3_Witness ==
  /\ Did(1, "generateImage.throw")
  /\ Done(1)
  /\ Out(1).message = <<Lit("Image generation failed")>>

(***************************************************************************)
(* C4. In every run the provider call has returned before the request      *)
(* touches the file system, and embedPngMetadata has run before writeFile  *)
(* is called.                                                              *)
(***************************************************************************)
C4_EffectsAreOrdered ==
  \A r \in Requests :
    \A i \in 1..Len(effects[r]) :
      /\ effects[r][i].op \in FsOps =>
           \E j \in 1..(i - 1) : effects[r][j].op = "generateImage.return"
      /\ effects[r][i].op \in {"embedPngMetadata", "embedPngMetadata.throw"} =>
           \A j \in 1..(i - 1) : effects[r][j].op \notin {"writeFile.call", "writeFile"}

C4_Witness ==
  /\ Saved(1)
  /\ Did(1, "mkdir") /\ Did(1, "embedPngMetadata") /\ Did(1, "writeFile")

(***************************************************************************)
(* C5. A malformed PNG container never fails the request: for every buffer *)
(* returned as image/png, embedding does not raise.                        *)
(***************************************************************************)
C5_EmbeddingNeverRaises ==
  \A r \in Requests : ~Did(r, "embedPngMetadata.throw")

(***************************************************************************)
(* C6. Two requests that leave the file name to the output resolver (no    *)
(* output path, or the same directory path) and are both saved commit      *)
(* distinct paths, and neither replaces the file the other wrote.          *)
(***************************************************************************)
LeftToResolver(r1, r2) ==
  \/ args[r1].outputPath = None /\ args[r2].outputPath = None
  \/ /\ args[r1].outputPath # None /\ args[r1].outputPath = args[r2].outputPath
     /\ ctx[r1].isDirectory /\ ctx[r2].isDirectory

SavedTo(r) == Out(r).image[1].savedTo[1]
WriteOf(r) == effects[r][Len(effects[r])]
NoClobber(r1, r2) ==
  /\ SavedTo(r1) # SavedTo(r2)
  /\ WriteOf(r1).replaced # r2 /\ WriteOf(r2).replaced # r1

SameSecond(r1, r2) == ctx[r1].resolvedAt \div 1000 = ctx[r2].resolvedAt \div 1000
SameExtension(r1, r2) ==
  getExtensionFromMimeType(ctx[r1].image.mimeType)
    = getExtensionFromMimeType(ctx[r2].image.mimeType)

\* The claim as stated: under every interleaving.
C6_AlwaysDistinctPaths ==
  \A r1, r2 \in Requests :
    (r1 # r2 /\ Saved(r1) /\ Saved(r2) /\ LeftToResolver(r1, r2)) => NoClobber(r1, r2)

\* C6, amended: the paths are distinct, and neither write replaces the
\* other's file, exactly when the two file names were generated in different
\* wall-clock seconds or carry different extensions; within one second and
\* with one extension both requests commit the same path.
C6_DistinctUnlessSameSecond ==
  \A r1, r2 \in Requests :
    (r1 # r2 /\ Saved(r1) /\ Saved(r2) /\ LeftToResolver(r1, r2)) =>
      IF SameSecond(r1, r2) /\ SameExtension(r1, r2)
        THEN SavedTo(r1) = SavedTo(r2)
        ELSE NoClobber(r1, r2)

C6_Witness ==
  /\ Saved(1) /\ Saved(2) /\ LeftToResolver(1, 2)
  /\ ~SameSecond(1, 2) /\ SameExtension(1, 2)
  /\ NoClobber(1, 2)

(***************************************************************************)
(* C7. For a preset whose aspect ratio the provider does not support       *)
(* natively, the success outcome reports the requested width and height    *)
(* whatever the provider returned, with an advisory that names the         *)
(* substituted aspect ratio and says cropping may be needed.               *)
(***************************************************************************)
Reported(r) == Out(r).image[1].dimensions
Preset(r) == ctx[r].preset
Provided(r) == ctx[r].image

NamesSubstitutedAspect(r) ==
  /\ Out(r).warning # None
  /\ Contains(Out(r).warning[1], Txt(Preset(r).geminiAspectRatio))
  /\ Contains(Out(r).warning[1], Lit(" aspect ratio. You may need to crop the image to fit "))

C7_NonNativeReportsRequested ==
  \A r \in Requests :
    (Saved(r) /\ ~Preset(r).nativeAspectRatio) =>
      /\ Reported(r).width = Preset(r).width
      /\ Reported(r).height = Preset(r).height
      /\ NamesSubstitutedAspect(r)

\* C7, amended: the reported width and height are the provider's where the
\* provider gave them and the requested ones where it did not; the advisory
\* is as claimed.
C7_NonNativeReportsProvided ==
  \A r \in Requests :
    (Saved(r) /\ ~Preset(r).nativeAspectRatio) =>
      /\ Provided(r).width # None => Reported(r).width = Provided(r).width[1]
      /\ Provided(r).width = None => Reported(r).width = Preset(r).width
      /\ Provided(r).height # None => Reported(r).height = Provided(r).height[1]
      /\ Provided(r).height = None => Reported(r).height = Preset(r).height
      /\ Reported(r).requestedWidth = Preset(r).width
      /\ Reported(r).requestedHeight = Preset(r).height
      /\ NamesSubstitutedAspect(r)

C7_Witness ==
  /\ Saved(1) /\ ~Preset(1).nativeAspectRatio
  /\ Provided(1).width # None /\ Provided(1).width[1] # Preset(1).width
  /\ Reported(1).width = Provided(1).width[1]

(***************************************************************************)
(* C8. A success outcome carries a warning exactly when the preset's       *)
(* aspect ratio is not native or the actual width or height (the           *)
(* provider's, or the requested one where the provider omits it) differs   *)
(* from the requested one.                                                 *)
(***************************************************************************)
WidthDiffers(r) == Provided(r).width # None /\ Provided(r).width[1] # Preset(r).width
HeightDiffers(r) == Provided(r).height # None /\ Provided(r).height[1] # Preset(r).height

C8_WarningIffDivergence ==
  \A r \in Requests :
    Saved(r) =>
      (Out(r).warning # None
         <=> (~Preset(r).nativeAspectRatio \/ WidthDiffers(r) \/ HeightDiffers(r)))

C8_Witness ==
  /\ Saved(1) /\ Preset(1).nativeAspectRatio
  /\ Provided(1).width = Some(Preset(1).width)
  /\ Provided(1).height = Some(Preset(1).height)
  /\ Out(1).warning = None

(***************************************************************************)
(* C9. For a native aspect ratio: when the provider's dimensions are       *)
(* present and differ from the requested ones, the reported dimensions are *)
(* the actual ones and the warning names the actual and the requested      *)
(* size; otherwise the reported dimensions are the requested ones and      *)
(* there is no warning.                                                    *)
(***************************************************************************)
C9_NativeReconciliation ==
  \A r \in Requests :
    (Saved(r) /\ Preset(r).nativeAspectRatio) =>
      IF WidthDiffers(r) \/ HeightDiffers(r)
        THEN /\ Reported(r).width =
                  (IF Provided(r).width # None THEN Provided(r).width[1] ELSE Preset(r).width)
             /\ Reported(r).height =
                  (IF Provided(r).height # None THEN Provided(r).height[1] ELSE Preset(r).height)
             /\ Out(r).warning # None
             /\ \A n \in {Reported(r).width, Reported(r).height,
                          Preset(r).width, Preset(r).height} :
                  Contains(Out(r).warning[1], Num(n))
        ELSE /\ Reported(r).width = Preset(r).width
             /\ Reported(r).height = Preset(r).height
             /\ Out(r).warning = None

C9_Witness ==
  /\ Saved(1) /\ Preset(1).nativeAspectRatio
  /\ WidthDiffers(1) /\ HeightDiffers(1)
  /\ Out(1).warning # None

(***************************************************************************)
(* C10. When a success outcome carries a warning, the response of the      *)
(* generate_blog_image handler contains the warning text.                  *)
(***************************************************************************)
ContainsText(text, part) ==
  \E i \in 0..(Len(text) - Len(part)) : SubSeq(text, i + 1, i + Len(part)) = part

ResponseShows(r, part) ==
  /\ response[r] # None
  /\ \E i \in 1..Len(response[r][1].content) :
       /\ response[r][1].content[i].type = "text"
       /\ ContainsText(response[r][1].content[i].text, part)

C10_ResponseCarriesWarning ==
  \A r \in Requests :
    (Saved(r) /\ Out(r).warning # None) => ResponseShows(r, Out(r).warning[1])

(***************************************************************************)
(* C11. In a Saved outcome the reported file size is the byte size of the  *)
(* buffer that was written to disk (the metadata-embedded buffer when      *)
(* embedding happened), not the size of the provider's data.               *)
(***************************************************************************)
WrittenBuffer(r) == ctx[r].finalBuffer

C11_FileSizeIsWrittenSize ==
  \A r \in Requests :
    Saved(r) => Out(r).image[1].fileSize = formatFileSize(Len(WrittenBuffer(r)))

(***************************************************************************)
(* C12. When generateImage throws a ProviderError with isRetryable = r,    *)
(* the failure outcome lets the caller observe r: it differs from the      *)
(* outcome of the same error with the opposite flag. The orchestrator      *)
(* calls the provider once and does not retry.                             *)
(***************************************************************************)
ProviderThrew(r) == HasOutcome(r) /\ "thrown" \in DOMAIN ctx[r]
Thrown(r) == ctx[r].thrown
WithOppositeFlag(error) == [error EXCEPT !.isRetryable = ~@]
ProviderCalls(r) ==
  Cardinality({i \in 1..Len(effects[r]) : effects[r][i].op = "generateImage.call"})

C12_RetryableFlagSurfaced ==
  \A r \in Requests :
    ProviderThrew(r) =>
      /\ Out(r) # GenerationFailedOutcome(WithOppositeFlag(Thrown(r)))
      /\ ProviderCalls(r) = 1

(***************************************************************************)
(* C13. No exception crosses the orchestrator boundary: whatever a         *)
(* collaborator does, a request that passed the schema and has finished    *)
(* has an outcome value, and executeGenerateImage did not throw.           *)
(***************************************************************************)
Executed(r) == Done(r) /\ ctx[r].input # None

C13_EveryRunYieldsOutcome ==
  \A r \in Requests :
    Executed(r) => (HasOutcome(r) /\ ~Did(r, "executeGenerateImage.throw"))

(***************************************************************************)
(* C14. embedPngMetadata returns its input unchanged, without raising, for *)
(* every buffer that does not begin with the 8-byte PNG signature: the     *)
(* empty buffer and buffers shorter than 8 bytes included.                 *)
(***************************************************************************)
Embedded(r) == pc[r] = "embedded"
InputBuffer(r) == args[r].pngBuffer
EmbedResult(r) == ctx[r].result

BeginsWithSignature(buf) ==
  Len(buf) >= 8 /\ \A i \in 1..8 : buf[i] = <<137, 80, 78, 71, 13, 10, 26, 10>>[i]

C14_NonPngPassesThrough ==
  \A r \in Requests :
    (Embedded(r) /\ ~BeginsWithSignature(InputBuffer(r))) =>
      (~EmbedResult(r).threw /\ EmbedResult(r).buf = InputBuffer(r))

C14_Witness ==
  /\ Embedded(1) /\ InputBuffer(1) = <<>>
  /\ args[1].metadata.prompt # None
  /\ EmbedResult(1).buf = <<>>

(***************************************************************************)
(* C15. For a well-formed PNG buffer and any metadata record, the output   *)
(* of embedPngMetadata is input[0..E) followed by the synthesized chunks   *)
(* followed by input[E..end), E = 8 + 4 + 4 + declared length + 4: the     *)
(* signature and first chunk are unchanged, the bytes after the first      *)
(* chunk are preserved in order, and the output is longer than the input   *)
(* by the sum over the synthesized chunks of 12 + keyword bytes + 1 +      *)
(* value bytes.                                                            *)
(***************************************************************************)
DeclaredLength(buf) == ((buf[9] * 256 + buf[10]) * 256 + buf[11]) * 256 + buf[12]
FirstChunkEnd(buf) == 8 + 4 + 4 + DeclaredLength(buf) + 4
WellFormed(buf) ==
  BeginsWithSignature(buf) /\ Len(buf) >= 12 /\ Len(buf) >= FirstChunkEnd(buf)

FieldOrder == <<"prompt", "model", "provider", "format", "style", "title", "generatedAt">>
Keyword(f) ==
  CASE f = "prompt" -> "Description"
    [] f = "model" -> "AI-Model"
    [] f = "provider" -> "AI-Provider"
    [] f = "format" -> "Image-Format"
    [] f = "style" -> "AI-Style"
    [] f = "title" -> "Title"
    [] f = "generatedAt" -> "Creation-Time"

\* The fields that are present and not empty, in the fixed order.
FieldsToEmbed(metadata) ==
  SelectSeq(FieldOrder, LAMBDA f : metadata[f] # None /\ metadata[f][1] # <<>>)

RECURSIVE Utf8Length(_)
Utf8Length(text) ==
  IF text = <<>> THEN 0
  ELSE (IF Head(text) < 128 THEN 1 ELSE IF Head(text) < 2048 THEN 2 ELSE 3)
         + Utf8Length(Tail(text))

RECURSIVE FieldChunkBytes(_, _)
FieldChunkBytes(fields, metadata) ==
  IF fields = <<>> THEN 0
  ELSE 12 + Len(Str(Keyword(Head(fields)))) + 1 + Utf8Length(metadata[Head(fields)][1])
         + FieldChunkBytes(Tail(fields), metadata)

FixedChunkBytes ==
  (12 + Len(Str("Software")) + 1 + Len(Str("image-generation-mcp")))
    + (12 + Len(Str("Source")) + 1
         + Len(Str("https://github.com/12-days-of-shipmas-2025/day-2-image-generation-mcp")))

ExpectedGrowth(metadata) ==
  FieldChunkBytes(FieldsToEmbed(metadata), metadata) + FixedChunkBytes

C15_SpliceAfterFirstChunk ==
  \A r \in Requests :
    (Embedded(r) /\ WellFormed(InputBuffer(r))) =>
      LET in == InputBuffer(r)
          out == EmbedResult(r).buf
          E == FirstChunkEnd(in)
          grown == Len(out) - Len(in)
      IN  /\ ~EmbedResult(r).threw
          /\ grown = ExpectedGrowth(args[r].metadata)
          /\ SubSeq(out, 1, E) = SubSeq(in, 1, E)
          /\ SubSeq(out, E + grown + 1, Len(out)) = SubSeq(in, E + 1, Len(in))

C15_Witness ==
  /\ Embedded(1) /\ WellFormed(InputBuffer(1))
  /\ DeclaredLength(InputBuffer(1)) > 0
  /\ Len(InputBuffer(1)) > FirstChunkEnd(InputBuffer(1))
  /\ Len(FieldsToEmbed(args[1].metadata)) = 7
  /\ Len(EmbedResult(1).buf) = Len(InputBuffer(1)) + ExpectedGrowth(args[1].metadata)

(***************************************************************************)
(* C16. For a PNG input, embedPngMetadata synthesizes exactly one text     *)
(* chunk per non-empty metadata field, in the fixed order prompt           *)
(* (Description), model, provider, format, style, title, generation        *)
(* timestamp, skipping absent and empty fields, and appends the Software   *)
(* and Source chunks last, also when every field is absent.                *)
(***************************************************************************)
\* The first index of a zero byte in data, or Len(data) + 1.
RECURSIVE FirstNul(_, _)
FirstNul(data, i) ==
  IF i > Len(data) \/ data[i] = 0 THEN i ELSE FirstNul(data, i + 1)

\* A run of chunks read back as <<[type, keyword, text], ...>>; bytes that
\* do not form a whole chunk are read as one chunk of no type.
RECURSIVE ReadChunks(_)
ReadChunks(bytes) ==
  IF bytes = <<>> THEN <<>>
  ELSE IF Len(bytes) < 12
           \/ Len(bytes) < 12 + ((bytes[1] * 256 + bytes[2]) * 256 + bytes[3]) * 256 + bytes[4]
    THEN <<[type |-> <<>>, keyword |-> <<>>, text |-> bytes]>>
  ELSE LET n == ((bytes[1] * 256 + bytes[2]) * 256 + bytes[3]) * 256 + bytes[4]
           data == SubSeq(bytes, 9, 8 + n)
           nul == FirstNul(data, 1)
       IN  <<[type |-> SubSeq(bytes, 5, 8),
              keyword |-> SubSeq(data, 1, nul - 1),
              text |-> SubSeq(data, nul + 1, n)]>>
             \o ReadChunks(SubSeq(bytes, 12 + n + 1, Len(bytes)))

TextChunk(keyword, text) == [type |-> Str("tEXt"), keyword |-> keyword, text |-> text]

ExpectedChunks(metadata) ==
  [i \in 1..Len(FieldsToEmbed(metadata)) |->
     TextChunk(Str(Keyword(FieldsToEmbed(metadata)[i])),
               Utf8Bytes(metadata[FieldsToEmbed(metadata)[i]][1]))]
  \o <<TextChunk(Str("Software"), Str("image-generation-mcp")),
       TextChunk(Str("Source"),
                 Str("https://github.com/12-days-of-shipmas-2025/day-2-image-generation-mcp"))>>

\* A buffer with the signature and a first-chunk length field to read.
IsPngInput(buf) == BeginsWithSignature(buf) /\ Len(buf) >= 12

\* The bytes the embedder put into the output.
InsertedBytes(r) ==
  LET in == InputBuffer(r)
      out == EmbedResult(r).buf
      at == IF FirstChunkEnd(in) < Len(in) THEN FirstChunkEnd(in) ELSE Len(in)
  IN  SubSeq(out, at + 1, at + Len(out) - Len(in))

C16_ChunksInFixedOrder ==
  \A r \in Requests :
    (Embedded(r) /\ IsPngInput(InputBuffer(r))) =>
      /\ ~EmbedResult(r).threw
      /\ ReadChunks(InsertedBytes(r)) = ExpectedChunks(args[r].metadata)

C16_Witness ==
  /\ Embedded(1) /\ IsPngInput(InputBuffer(1))
  /\ args[1].metadata.style = Some(<<>>)
  /\ args[1].metadata.title # None
  /\ Len(ReadChunks(InsertedBytes(1))) = 8

C16_WitnessAllAbsent ==
  /\ Embedded(1) /\ IsPngInput(InputBuffer(1))
  /\ FieldsToEmbed(args[1].metadata) = <<>>
  /\ Len(ReadChunks(InsertedBytes(1))) = 2

(***************************************************************************)
(* C17. When the provider's MIME type is not image/png nothing is          *)
(* embedded and the bytes on disk are exactly the decoded provider bytes;  *)
(* when it is image/png (metadata is always supplied) the bytes on disk    *)
(* are embedPngMetadata of the decoded provider bytes.                     *)
(***************************************************************************)
OnDisk(r) == files[SavedTo(r)].data

\* b is what the provider sent: its base64 text is the one received.
ProviderSent(r, b) == Base64Encode(b) = Provided(r).base64Data

C17_WrittenBytes ==
  \A r \in Requests :
    Saved(r) =>
      \E b \in Buffers :
        /\ ProviderSent(r, b)
        /\ IF Provided(r).mimeType # "image/png"
             THEN ~Did(r, "embedPngMetadata") /\ OnDisk(r) = b
             ELSE Did(r, "embedPngMetadata")
                    /\ OnDisk(r) = embedPngMetadata(b, ctx[r].metadata).buf

C17_Witness ==
  /\ Saved(1) /\ Provided(1).mimeType = "image/jpeg"
  /\ IsPngInput(OnDisk(1))
  /\ ProviderSent(1, OnDisk(1))

C17_WitnessPng ==
  /\ Saved(1) /\ Provided(1).mimeType = "image/png"
  /\ IsPngInput(OnDisk(1))
  /\ ~ProviderSent(1, OnDisk(1))

(***************************************************************************)
(* C18. For a supplied path that is not treated as a directory and whose   *)
(* last segment lacks an extension, the committed path is the resolved     *)
(* absolute path plus exactly one extension from the MIME table (.png,     *)
(* .jpg, .webp, .gif; .png for any other MIME type); a path that already   *)
(* has an extension is committed unchanged.                                *)
(***************************************************************************)
\* A segment has an extension when something follows its last dot and that
\* dot is not its first character.
HasExtension(seg) ==
  \E i \in 2..(Len(seg) - 1) : seg[i] = 46 /\ \A j \in (i + 1)..Len(seg) : seg[j] # 46

MimeTableExtension(mimeType) ==
  CASE mimeType \in {"image/jpeg", "image/jpg"} -> Str(".jpg")
    [] mimeType = "image/webp" -> Str(".webp")
    [] mimeType = "image/gif" -> Str(".gif")
    [] OTHER -> Str(".png")

SuppliedFilePath(r) == Saved(r) /\ args[r].outputPath # None /\ ~ctx[r].isDirectory
ResolvedSupplied(r) == resolve(args[r].outputPath[1])
LastSegment(path) == path[Len(path)]

C18_ExtensionAddedWhenLacking ==
  \A r \in Requests :
    SuppliedFilePath(r) =>
      LET p == ResolvedSupplied(r)
      IN  IF HasExtension(LastSegment(p))
            THEN SavedTo(r) = p
            ELSE SavedTo(r) =
                   [p EXCEPT ![Len(p)] = @ \o MimeTableExtension(Provided(r).mimeType)]

(***************************************************************************)
(* C19. If the supplied path denotes an existing directory or textually    *)
(* ends with a path separator (even when nothing exists there), saveImage  *)
(* treats it as a directory: the committed path is that directory joined   *)
(* with a generated file name '<prefix>-<19-character timestamp><ext>'     *)
(* with the MIME-derived extension and no second extension, and the        *)
(* directory and its missing parents are created before the write.         *)
(***************************************************************************)
EndsInSeparator(raw) == raw # <<>> /\ raw[Len(raw)] \in {47, 92}

SuppliedDirectory(r) ==
  /\ Saved(r) /\ args[r].outputPath # None
  /\ EndsInSeparator(args[r].outputPath[1]) \/ ResolvedSupplied(r) \in InitialDirs

IsDigit(c) == c \in 48..57

\* YYYY-MM-DDTHH-MM-SS
IsWholeSecondStamp(stamp) ==
  /\ Len(stamp) = 19
  /\ \A i \in 1..19 :
       IF i \in {5, 8, 14, 17} THEN stamp[i] = 45
       ELSE IF i = 11 THEN stamp[i] = 84
       ELSE IsDigit(stamp[i])

IsGeneratedName(name, mimeType) ==
  LET ext == MimeTableExtension(mimeType)
  IN  /\ Len(name) = 10 + 1 + 19 + Len(ext)
      /\ SubSeq(name, 1, 11) = Str("blog-image") \o <<45>>
      /\ IsWholeSecondStamp(SubSeq(name, 12, 30))
      /\ SubSeq(name, 31, Len(name)) = ext

EffectIndex(r, op) == CHOOSE i \in 1..Len(effects[r]) : effects[r][i].op = op

C19_DirectoryGetsGeneratedName ==
  \A r \in Requests :
    SuppliedDirectory(r) =>
      LET d == ResolvedSupplied(r)
          committed == SavedTo(r)
      IN  /\ Len(committed) = Len(d) + 1
          /\ SubSeq(committed, 1, Len(d)) = d
          /\ IsGeneratedName(LastSegment(committed), Provided(r).mimeType)
          /\ \A k \in 0..Len(d) : SubSeq(d, 1, k) \in dirs
          /\ d \notin InitialDirs =>
               /\ Did(r, "mkdir")
               /\ EffectIndex(r, "mkdir") < EffectIndex(r, "writeFile.call")

C19_Witness ==
  /\ SuppliedDirectory(1)
  /\ EndsInSeparator(args[1].outputPath[1])
  /\ ResolvedSupplied(1) \notin InitialDirs
  /\ Did(1, "mkdir")
  /\ Provided(1).mimeType = "image/webp"

(***************************************************************************)
(* C20. Every invalid-input failure (schema rejection, invalid prompt,     *)
(* invalid output path, unknown format key) is surfaced as a failure       *)
(* before any provider call: in such a run provider.generateImage is not   *)
(* called and no directory is created and no file written.                 *)
(***************************************************************************)
\* Arguments the schema or the validators reject.
InvalidArgs(r) ==
  LET a == args[r]
  IN  \/ a.prompt = None
      \/ a.prompt # None /\ Len(a.prompt[1]) < 3
      \/ a.prompt # None /\ a.prompt[1] \in BlockedPrompts
      \/ a.format # None /\ a.format[1] \notin PRESET_KEYS
      \/ a.provider # None /\ a.provider[1] # "gemini"
      \/ a.outputPath # None
           /\ \E i \in 1..(Len(a.outputPath[1]) - 1) :
                a.outputPath[1][i] = 46 /\ a.outputPath[1][i + 1] = 46

SchemaRejected(r) == Done(r) /\ ctx[r].input = None
InvalidInputFailure(r) ==
  SchemaRejected(r) \/ (Failed(r) /\ Out(r).message \in InvalidInputMessages)

C20_InvalidInputFailsFirst ==
  \A r \in Requests :
    /\ (Done(r) /\ InvalidArgs(r)) => InvalidInputFailure(r)
    /\ InvalidInputFailure(r) =>
         /\ response[r] # None /\ response[r][1].isError
         /\ ~Did(r, "generateImage.call")
         /\ ~TouchedFs(r)

C20_Witness ==
  /\ env.apiKey
  /\ Failed(1) /\ Out(1).message = <<Lit("Invalid output path")>>
  /\ InvalidArgs(1)
  /\ effects[1] = <<>>

C20_WitnessSchema ==
  /\ env.apiKey
  /\ SchemaRejected(1) /\ args[1].format # None
  /\ effects[1] = <<>>

(***************************************************************************)
(* C21. The orchestrator is single-pass: in a run of one request           *)
(* provider.generateImage is invoked at most once and the image file is    *)
(* written at most once, the run moves through Validated, ProviderInvoked, *)
(* ProviderFailed or ImageReceived, MetadataEmbedded, WriteFailed or Saved *)
(* without going back to an earlier state, and exactly one outcome is      *)
(* produced.                                                               *)
(***************************************************************************)
WriteCalls(r) ==
  Cardinality({i \in 1..Len(effects[r]) : effects[r][i].op = "writeFile.call"})

\* How far a run has come: received, provider invoked, image received
\* (creating the directory), metadata embedded (writing), ended.
Stage(position) ==
  CASE position = "received" -> 0
    [] position = "awaitProvider" -> 1
    [] position = "awaitMkdir" -> 2
    [] position = "awaitWrite" -> 3
    [] position = "done" -> 4

SinglePass(r) ==
  /\ ProviderCalls(r) <= 1
  /\ WriteCalls(r) <= 1

NeverBack(r) ==
  /\ Stage(pc'[r]) >= Stage(pc[r])
  /\ outcome[r] # None => outcome'[r] = outcome[r]

\* A run of executeGenerateImage that has ended has produced its outcome.
OneOutcome(r) == Executed(r) => HasOutcome(r)

C21_SinglePassOneOutcome ==
  /\ [](\A r \in Requests : SinglePass(r) /\ OneOutcome(r))
  /\ [][\A r \in Requests : NeverBack(r)]_vars

====
